---- MODULE Spec2Model ----
(***************************************************************************)
(* A model of Store<T> (src/src/store.ts): one shared mutable domain value,*)
(* a registry of listeners, the read subscription useRead and the write    *)
(* wrapper returned by useWrite, together with the part of the rendering   *)
(* framework the three hooks of useRead rely on (memoised getter, state    *)
(* cell with an update queue, activation effect with cleanup).             *)
(*                                                                         *)
(* The components are the ones of the repository's tests:                  *)
(*   "C"       calls useRead and useWrite  (basic.test.tsx 30-39)          *)
(*   "Counter" calls useRead only          (basic.test.tsx 244-248)        *)
(*   "Control" calls useWrite only         (basic.test.tsx 249-253)        *)
(***************************************************************************)
EXTENDS Integers, Sequences, FiniteSets, TLC

\* ------------------------------------------------------------------ bounds
MaxWrites == 2      \* write-wrapper invocations in one behaviour
MaxRenders == 2     \* renders (mount included) of one component instance

\* -------------------------------------------------------------- components
Comps == {"C", "Counter", "Control"}
Readers == {"C", "Counter"}
Writers == {"C", "Control"}
\* The components that also re-render for reasons of their own (local state):
\* the component of the "selectors control" test (basic.test.tsx 278-292).
Local == {"C"}

\* --------------------------------------------------------- the domain value
\* The domain object of the "types" test (basic.test.tsx 195-206): a field x
\* with the methods setX and getX, and a method fail that writes x and then
\* throws: fail() { this.x = 2; throw ... }.
InitialValue == [x |-> 1]
Methods == {"setX", "getX", "fail"}
Throwing == {"fail"}
Args == {1, 2}
Undefined == 0

MethodEffect(m, v, a) ==
  CASE m = "setX" -> [v EXCEPT !.x = a]
    [] m = "fail" -> [v EXCEPT !.x = 2]
    [] OTHER -> v

MethodResult(m, v, a) == IF m = "getX" THEN v.x ELSE Undefined

\* The arguments a call of m is given: setX takes one, getX and fail none.
ArgsOf(m) == IF m = "setX" THEN Args ELSE {Undefined}

\* ----------------------------------------------------------------- selectors
\* A selector function is [kind, owner, id]: kind says what it derives, and
\* (owner, id) is its identity: owner "module" (id 0) is a function defined
\* once outside the components, owner c with id n is the closure that render
\* number n of component c constructed.  The module's function is s => s.x,
\* an inline closure is s => -s.x.
Kinds == {"x", "neg"}
NoSel == [kind |-> "none", owner |-> "none", id |-> 0]
Stable(k) == [kind |-> k, owner |-> "module", id |-> 0]
Inline(k, c, n) == [kind |-> k, owner |-> c, id |-> n]
SelectorsAt(c, n) == {Stable("x"), Inline("neg", c, n)}

SelApply(k, v) == CASE k = "x" -> v.x [] k = "neg" -> 0 - v.x [] OTHER -> Undefined

\* getter(): a fresh container { value: selector(this.value) }; n numbers the
\* evaluations of the subscription's getters, so that two containers are the
\* same object only if they come from the same evaluation.
\* (variants: a getter that closes over the value the Store was built with;
\* a getter that returns the bare selected value, so that equal values are
\* the same "container")
GetterOfInitialValue(sel, v, n) == [value |-> SelApply(sel.kind, InitialValue), id |-> n]
GetterUnboxed(sel, v, n) == [value |-> SelApply(sel.kind, v), id |-> 0]
Getter(sel, v, n) == [value |-> SelApply(sel.kind, v), id |-> n]
NoContainer == [value |-> Undefined, id |-> 0]

\* ----------------------------------------------------------------- listeners
\* The closure () => setState(getter) that effect run number gen of component
\* comp created; sel is the selector its getter closes over.
NoListener == [comp |-> "none", sel |-> NoSel, gen |-> 0]
Listener(c, sel, n) == [comp |-> c, sel |-> sel, gen |-> n]

\* (variants: the listener is pushed twice; the listener is put in front)
AddListenerTwice(ls, l) == Append(Append(ls, l), l)
AddListenerFront(ls, l) == <<l>> \o ls
AddListener(ls, l) == Append(ls, l)

\* (variant: removal compares the selectors the listeners close over instead
\* of the listeners themselves)
RemoveListenerBySelector(ls, l) == SelectSeq(ls, LAMBDA m : m.sel # l.sel)
\* (variant: the cleanup removes nothing)
RemoveListenerNothing(ls, l) == ls
RemoveListener(ls, l) == SelectSeq(ls, LAMBDA m : m # l)

Range(s) == {s[i] : i \in 1..Len(s)}
Count(l, s) == Cardinality({i \in 1..Len(s) : s[i] = l})

\* ------------------------------------------------------------------ useWrite
\* useWrite(selector): the selector picks the method m of the domain value;
\* the registry is left as it is.
\* (variant: useWrite also subscribes its component)
UseWriteSubscribes(c, m, ls) ==
  [method |-> m, listeners |-> Append(ls, [comp |-> c, sel |-> NoSel, gen |-> 0])]
UseWrite(c, m, ls) == [method |-> m, listeners |-> ls]

\* A writing component calls useWrite once for every method, as the component
\* of the "types" test does: its wrappers, and the registry after the calls.
RECURSIVE UseWriteAll(_, _, _)
UseWriteAll(c, ms, ls) ==
  IF ms = {} THEN [methods |-> {}, listeners |-> ls]
  ELSE LET m == CHOOSE k \in ms : TRUE
           w == UseWrite(c, m, ls)
           r == UseWriteAll(c, ms \ {m}, w.listeners) IN
       [methods |-> {w.method} \cup r.methods, listeners |-> r.listeners]

\* The wrapper body up to the notification: selectedMethod.call(this.value, ...args);
\* threw says that the call ended with an exception, which the wrapper does
\* not catch.
\* (variants: the method runs on a copy of the domain value; the wrapper
\* catches what the method throws and goes on)
WrapperCallOnCopy(m, v, a) ==
  [value |-> v, result |-> MethodResult(m, v, a), threw |-> m \in Throwing]
WrapperCallCatches(m, v, a) ==
  [value |-> MethodEffect(m, v, a), result |-> MethodResult(m, v, a), threw |-> FALSE]
WrapperCall(m, v, a) ==
  [value |-> MethodEffect(m, v, a), result |-> MethodResult(m, v, a),
   threw |-> m \in Throwing]

\* emitChange(): the array the for...of loop walks.
\* (variant: the loop starts at the second listener)
EmitChangeFromSecond(ls) == IF ls = <<>> THEN ls ELSE Tail(ls)
EmitChange(ls) == ls

\* The loop of a running pass p when removeListener(l) runs: filter builds a
\* new array for Store.listeners, the loop keeps the array it walks.
\* (variant: the listener is spliced out of the array in place)
WalkedAfterSplice(p, l) == [p EXCEPT !.arr = RemoveListener(@, l)]
WalkedAfterRemove(p, l) == [p EXCEPT !.live = FALSE]

\* --------------------------------------------------------------------- state
VARIABLES
  value,       \* Store.value
  listeners,   \* Store.listeners
  mounted,     \* which components are mounted
  selector,    \* per component: the selector of its last render (the getter's dependency)
  state,       \* per component: the container in the useState cell
  queue,       \* per component: the updates setState queued, not yet rendered
  attached,    \* per component: the listener its effect's cleanup will remove
  pendDestroy, \* per component: the effect's cleanup is due
  pendCreate,  \* per component: the effect's body is due
  wrapper,     \* per component: the methods its write wrappers call
  renders,     \* per component instance: how often its function has run
  selCalls,    \* per component instance: evaluations of its read selector
  pass,        \* the write-wrapper invocation in progress
  writes,      \* write-wrapper invocations so far
  notif        \* per component instance: the kind of the selector of the listener
               \* that the latest invocation's pass called for it, until the
               \* component renders ("none": none)

vars == <<value, listeners, mounted, selector, state, queue, attached,
          pendDestroy, pendCreate, wrapper, renders, selCalls, pass, writes,
          notif>>

\* pass: arr is the array emitChange walks and idx the position of the loop in
\* it; live says that Store.listeners still is that array object; window says
\* that the listener call under way queued an update; start is the registry
\* when the wrapper was invoked; method, arg and result are the wrapper's call,
\* and threw says that the method threw, so that emitChange is not reached.
NoPass == [active |-> FALSE, arr |-> <<>>, live |-> FALSE, idx |-> 1,
           window |-> FALSE, start |-> <<>>, method |-> "none",
           arg |-> Undefined, result |-> Undefined, threw |-> FALSE]

Init ==
  /\ value = InitialValue
  /\ listeners = <<>>
  /\ mounted = [c \in Comps |-> FALSE]
  /\ selector = [c \in Comps |-> NoSel]
  /\ state = [c \in Comps |-> NoContainer]
  /\ queue = [c \in Comps |-> <<>>]
  /\ attached = [c \in Comps |-> NoListener]
  /\ pendDestroy = [c \in Comps |-> FALSE]
  /\ pendCreate = [c \in Comps |-> FALSE]
  /\ wrapper = [c \in Comps |-> {}]
  /\ renders = [c \in Comps |-> 0]
  /\ selCalls = [c \in Comps |-> 0]
  /\ pass = NoPass
  /\ writes = 0
  /\ notif = [c \in Comps |-> "none"]

\* The framework runs the effects of a commit before it renders again.
NoPendingEffects == \A c \in Comps : ~pendDestroy[c] /\ ~pendCreate[c]

\* Inside a notification pass a render or an effect can only run from within
\* a listener call that queued an update (a synchronous flush).
InWindow == pass.active => pass.window

\* ------------------------------------------------------------------- useRead
\* useCallback(() => ..., [selector]): the getter is rebuilt exactly when the
\* selector's identity differs from the one of the previous render, so the
\* getter's identity is the identity of the selector it closes over.
UseCallback(prev, s) == IF s = prev THEN prev ELSE s

\* useState(getter) on the first render: the initializer runs once.
\* (variant: the cell starts empty and waits for the first notification)
UseStateInitEmpty(sel, v) == [state |-> NoContainer, calls |-> 0]
UseStateInit(sel, v) == [state |-> Getter(sel, v, 1), calls |-> 1]

\* The queued updates setState(getter) left, applied in order: an update whose
\* state was computed when it was queued carries it, any other one calls its
\* getter now.  n counts the selector evaluations.
RECURSIVE Reduce(_, _, _, _)
Reduce(st, q, v, n) ==
  IF q = <<>> THEN [state |-> st, calls |-> n]
  ELSE LET u == Head(q) IN
       IF u.eager THEN Reduce(u.state, Tail(q), v, n)
       ELSE Reduce(Getter(u.sel, v, n + 1), Tail(q), v, n + 1)

\* useState(getter) on a later render: the argument is ignored, the cell is
\* what the queued updates make of it.
\* (variants: the getter passed to useState is evaluated on every render;
\* the queued updates are dropped; only the last queued update is applied)
UseStateRecompute(sel, st, q, v, n) ==
  [state |-> Getter(sel, v, Reduce(st, q, v, n).calls + 1),
   calls |-> Reduce(st, q, v, n).calls + 1]
UseStateKeep(sel, st, q, v, n) == [state |-> st, calls |-> n]
UseStateLastOnly(sel, st, q, v, n) ==
  IF q = <<>> THEN Reduce(st, q, v, n) ELSE Reduce(st, <<q[Len(q)]>>, v, n)
UseStateUpdate(sel, st, q, v, n) == Reduce(st, q, v, n)

\* useEffect(..., [getter]): due on the first render and when the getter changed.
UseEffectDue(prev, getter) == prev # getter

\* setState(getter) called by a listener: getter is a function, so it is an
\* updater.  The framework may evaluate it at once when nothing is queued for
\* the component (and then drops the update if the result is the very object
\* in the cell), or leave it to the next render.  An update also records, in
\* at, the x of the domain value when it was queued (not read by the code).
SetState(c, sel, eager) ==
  IF eager
  THEN LET box == Getter(sel, value, selCalls[c] + 1) IN
       /\ selCalls' = [selCalls EXCEPT ![c] = @ + 1]
       /\ queue' = [queue EXCEPT ![c] =
             IF box = state[c] THEN @
             ELSE Append(@, [sel |-> sel, eager |-> TRUE, state |-> box,
                             at |-> value.x])]
  ELSE /\ selCalls' = selCalls
       /\ queue' = [queue EXCEPT ![c] =
             Append(@, [sel |-> sel, eager |-> FALSE, state |-> NoContainer,
                        at |-> value.x])]

\* ------------------------------------------------------------------- actions
\* What a render of c passes to useRead: "C" any selector, the other readers
\* the module's selector of x.
SelChoice(c, n) ==
  IF c \in Local THEN SelectorsAt(c, n)
  ELSE IF c \in Readers THEN {Stable("x")} ELSE {NoSel}

\* First render of a component and its commit.
Mount(c, s) ==
  /\ ~mounted[c] /\ ~pass.active /\ NoPendingEffects
  /\ mounted' = [mounted EXCEPT ![c] = TRUE]
  /\ renders' = [renders EXCEPT ![c] = 1]
  /\ IF c \in Readers
     THEN LET r == UseStateInit(UseCallback(NoSel, s), value) IN
          /\ selector' = [selector EXCEPT ![c] = UseCallback(NoSel, s)]
          /\ state' = [state EXCEPT ![c] = r.state]
          /\ selCalls' = [selCalls EXCEPT ![c] = r.calls]
          /\ pendCreate' = [pendCreate EXCEPT ![c] = UseEffectDue(NoSel, s)]
     ELSE UNCHANGED <<selector, state, selCalls, pendCreate>>
  /\ IF c \in Writers
     THEN LET w == UseWriteAll(c, Methods, listeners) IN
          /\ wrapper' = [wrapper EXCEPT ![c] = w.methods]
          /\ listeners' = w.listeners
     ELSE UNCHANGED <<wrapper, listeners>>
  /\ UNCHANGED <<value, queue, attached, pendDestroy, pass, writes, notif>>

\* A later render of a mounted component and its commit: because setState
\* queued an update, or for a reason of its own (local state, parent).
Rerender(c, s) ==
  /\ mounted[c] /\ NoPendingEffects /\ renders[c] < MaxRenders
  /\ queue[c] # <<>> \/ c \in Local
  /\ pass.active => (pass.window /\ queue[c] # <<>>)
  /\ renders' = [renders EXCEPT ![c] = @ + 1]
  /\ queue' = [queue EXCEPT ![c] = <<>>]
  /\ IF c \in Readers
     THEN LET getter == UseCallback(selector[c], s)
              r == UseStateUpdate(getter, state[c], queue[c], value, selCalls[c]) IN
          /\ selector' = [selector EXCEPT ![c] = getter]
          /\ state' = [state EXCEPT ![c] = r.state]
          /\ selCalls' = [selCalls EXCEPT ![c] = r.calls]
          /\ pendDestroy' = [pendDestroy EXCEPT ![c] =
                UseEffectDue(selector[c], getter) /\ attached[c] # NoListener]
          /\ pendCreate' = [pendCreate EXCEPT ![c] = UseEffectDue(selector[c], getter)]
     ELSE UNCHANGED <<selector, state, selCalls, pendDestroy, pendCreate>>
  /\ IF c \in Writers
     THEN LET w == UseWriteAll(c, Methods, listeners) IN
          /\ wrapper' = [wrapper EXCEPT ![c] = w.methods]
          /\ listeners' = w.listeners
          /\ pass' = IF pass.active /\ pass.live
                     THEN [pass EXCEPT !.arr = @ \o SubSeq(w.listeners, Len(listeners) + 1, Len(w.listeners))]
                     ELSE pass
     ELSE UNCHANGED <<wrapper, listeners, pass>>
  /\ notif' = [notif EXCEPT ![c] = "none"]
  /\ UNCHANGED <<value, mounted, attached, writes>>

\* The component is removed from the tree; its effect's cleanup becomes due.
Unmount(c) ==
  /\ mounted[c] /\ ~pass.active /\ NoPendingEffects
  /\ mounted' = [mounted EXCEPT ![c] = FALSE]
  /\ pendDestroy' = [pendDestroy EXCEPT ![c] = attached[c] # NoListener]
  /\ selector' = [selector EXCEPT ![c] = NoSel]
  /\ state' = [state EXCEPT ![c] = NoContainer]
  /\ queue' = [queue EXCEPT ![c] = <<>>]
  /\ wrapper' = [wrapper EXCEPT ![c] = {}]
  /\ renders' = [renders EXCEPT ![c] = 0]
  /\ selCalls' = [selCalls EXCEPT ![c] = 0]
  /\ notif' = [notif EXCEPT ![c] = "none"]
  /\ UNCHANGED <<value, listeners, attached, pendCreate, pass, writes>>

\* The cleanup the effect returned: () => this.removeListener(listener).
EffectDestroy(c) ==
  /\ pendDestroy[c] /\ InWindow
  /\ listeners' = RemoveListener(listeners, attached[c])
  /\ attached' = [attached EXCEPT ![c] = NoListener]
  /\ pendDestroy' = [pendDestroy EXCEPT ![c] = FALSE]
  /\ pass' = IF pass.active THEN WalkedAfterRemove(pass, attached[c]) ELSE pass
  /\ UNCHANGED <<value, mounted, selector, state, queue, pendCreate, wrapper,
                 renders, selCalls, writes, notif>>

\* The effect body: this.addListener(() => setState(getter)).  The cleanups
\* of a commit all run before its effect bodies.
EffectCreate(c) ==
  /\ pendCreate[c] /\ InWindow
  /\ \A d \in Comps : ~pendDestroy[d]
  /\ LET l == Listener(c, selector[c], renders[c]) IN
     /\ listeners' = AddListener(listeners, l)
     /\ attached' = [attached EXCEPT ![c] = l]
     /\ pass' = IF pass.active /\ pass.live
                THEN [pass EXCEPT !.arr = AddListener(@, l)]
                ELSE pass
  /\ pendCreate' = [pendCreate EXCEPT ![c] = FALSE]
  /\ UNCHANGED <<value, mounted, selector, state, queue, pendDestroy, wrapper,
                 renders, selCalls, writes, notif>>

\* The write wrapper is invoked: the method is applied and, unless it threw,
\* emitChange begins.
Invoke(c, m, a) ==
  /\ mounted[c] /\ m \in wrapper[c] /\ ~pass.active /\ writes < MaxWrites
  /\ a \in ArgsOf(m)
  /\ LET r == WrapperCall(m, value, a) IN
     /\ value' = r.value
     /\ pass' = [active |-> TRUE,
                 arr |-> IF r.threw THEN <<>> ELSE EmitChange(listeners),
                 live |-> ~r.threw,
                 idx |-> 1, window |-> FALSE, start |-> listeners,
                 method |-> m, arg |-> a, result |-> r.result, threw |-> r.threw]
  /\ writes' = writes + 1
  /\ notif' = [d \in Comps |-> "none"]
  /\ UNCHANGED <<listeners, mounted, selector, state, queue, attached,
                 pendDestroy, pendCreate, wrapper, renders, selCalls>>

\* One iteration of emitChange's loop: listener().
EmitStep ==
  /\ pass.active /\ ~pass.threw /\ pass.idx <= Len(pass.arr)
  /\ LET l == pass.arr[pass.idx]
         c == l.comp IN
     IF c \in Comps /\ mounted[c]
     THEN /\ \E eager \in (IF queue[c] = <<>> THEN BOOLEAN ELSE {FALSE}) :
               SetState(c, l.sel, eager)
          /\ notif' = [notif EXCEPT ![c] = l.sel.kind]
          /\ pass' = [pass EXCEPT !.idx = @ + 1, !.window = TRUE]
     ELSE /\ pass' = [pass EXCEPT !.idx = @ + 1, !.window = FALSE]
          /\ UNCHANGED <<queue, selCalls, notif>>
  /\ UNCHANGED <<value, listeners, mounted, selector, state, attached,
                 pendDestroy, pendCreate, wrapper, renders, writes>>

\* The loop is over: the wrapper returns the method's result.
Return ==
  /\ pass.active /\ ~pass.threw /\ pass.idx > Len(pass.arr)
  /\ pass' = NoPass
  /\ UNCHANGED <<value, listeners, mounted, selector, state, queue, attached,
                 pendDestroy, pendCreate, wrapper, renders, selCalls, writes,
                 notif>>

\* The method threw: the exception leaves the wrapper, past emitChange.
Throw ==
  /\ pass.active /\ pass.threw
  /\ pass' = NoPass
  /\ UNCHANGED <<value, listeners, mounted, selector, state, queue, attached,
                 pendDestroy, pendCreate, wrapper, renders, selCalls, writes,
                 notif>>

Next ==
  \/ \E c \in Comps : \E s \in SelChoice(c, 1) : Mount(c, s)
  \/ \E c \in Comps : \E s \in SelChoice(c, renders[c] + 1) : Rerender(c, s)
  \/ \E c \in Comps : Unmount(c)
  \/ \E c \in Comps : EffectDestroy(c)
  \/ \E c \in Comps : EffectCreate(c)
  \/ \E c \in Comps : \E m \in Methods : \E a \in ArgsOf(m) : Invoke(c, m, a)
  \/ EmitStep
  \/ Return
  \/ Throw

Spec == Init /\ [][Next]_vars

TypeOK ==
  /\ value.x \in Args
  /\ writes \in 0..MaxWrites
  /\ \A c \in Comps : renders[c] \in 0..MaxRenders

\* -------------------------------------------------------------- vocabulary
\* The steps of a behaviour, told by what they change.
InvokeStep == ~pass.active /\ pass'.active
ReturnStep == pass.active /\ ~pass.threw /\ ~pass'.active
ThrowStep == pass.active /\ pass.threw /\ ~pass'.active
ListenerCall == pass.active /\ pass'.active /\ pass'.idx = pass.idx + 1
Delivered(c) == ListenerCall /\ pass.arr[pass.idx].comp = c /\ mounted[c]
RerenderStep(c) == mounted[c] /\ renders'[c] = renders[c] + 1
DestroyStep(c) == pendDestroy[c] /\ ~pendDestroy'[c]

\* No pass is running, no effect is due and no update is waiting for a render.
Quiescent ==
  /\ ~pass.active /\ NoPendingEffects
  /\ \A c \in Comps : queue[c] = <<>>

\* The listeners the running pass has called so far.
Called == SubSeq(pass.arr, 1, pass.idx - 1)

\* Selector evaluations of c done, plus those its queued updates still owe.
Evaluations(c) ==
  selCalls[c] + Cardinality({i \in 1..Len(queue[c]) : ~queue[c][i].eager})

MountedReaders == {c \in Readers : mounted[c]}

\* ------------------------------------------------------------------ claims

\* C1: when the pass of the latest write-wrapper invocation called a
\* subscription's attached listener, the subscription's next render yields
\* the selector that listener closes over, applied to the post-mutation
\* domain value.
C1_ReadReflectsWrite ==
  [][\A c \in Readers :
       (RerenderStep(c) /\ notif[c] # "none")
         => state'[c].value = SelApply(notif[c], value)]_vars

\* A subscription mounted while x was 1 shows 2 after setX(2) and its re-render.
C1_Witness ==
  \E c \in Readers :
    /\ mounted[c] /\ renders[c] = 2 /\ queue[c] = <<>>
    /\ state[c].id = 2 /\ state[c].value = 2 /\ value.x = 2 /\ writes = 1
    /\ selector[c] = Stable("x")

\* C2: from its first evaluation until the component deactivates, once all
\* pending effects and re-renders have run, useRead returns the currently
\* supplied selector applied to the current domain value.
C2_KeepsUpToDate ==
  Quiescent =>
    \A c \in MountedReaders : state[c].value = SelApply(selector[c].kind, value)

\* C3: an invocation of a write wrapper whose method returns runs one
\* notification pass between the method call and the return: the loop walks the registry as it is at
\* the invocation, the domain value is not touched again, and at the return
\* every listener that was in the registry at the invocation has been called
\* exactly once, whatever the method did.
C3_OnePassPerInvocation ==
  [][/\ (InvokeStep /\ pass'.method \notin Throwing) =>
          (pass'.arr = listeners /\ pass'.start = listeners /\ pass'.idx = 1)
     /\ (pass.active /\ pass'.active) =>
          (value' = value /\ pass'.start = pass.start /\ pass'.idx \in {pass.idx, pass.idx + 1})
     /\ ReturnStep =>
          (/\ value' = value
           /\ pass.idx = Len(pass.arr) + 1
           /\ \A l \in Range(pass.start) : Count(l, Called) = 1)]_vars

\* The pass of a getX call (no change to the domain value) has called both
\* listeners of the registry and is about to return.
C3_Witness ==
  /\ pass.active /\ pass.method = "getX" /\ Len(pass.start) = 2
  /\ pass.idx = Len(pass.arr) + 1
  /\ \A l \in Range(pass.start) : Count(l, Called) = 1

C5_CountInEveryState ==
  /\ Len(listeners) = Cardinality(MountedReaders)
  /\ \A i \in 1..Len(listeners) : listeners[i].comp \in MountedReaders

\* C5 amended: whenever no attach and no cleanup is due, the registry holds
\* exactly one listener for every mounted read subscription and none of an
\* ended one; in every state it holds at most one listener per subscription.
C5_CountWhenEffectsHaveRun ==
  /\ NoPendingEffects =>
       /\ Len(listeners) = Cardinality(MountedReaders)
       /\ \A c \in MountedReaders : Count(attached[c], listeners) = 1
       /\ \A i \in 1..Len(listeners) : listeners[i].comp \in MountedReaders
  /\ \A i, j \in 1..Len(listeners) : listeners[i].comp = listeners[j].comp => i = j

\* Both subscriptions are mounted and attached, "C" for the second time
\* (after a render with a new selector closure); a write has happened.
C5_Witness ==
  /\ NoPendingEffects /\ ~pass.active /\ writes = 1
  /\ MountedReaders = Readers /\ Len(listeners) = 2
  /\ renders["C"] = 2 /\ attached["C"].gen = 2

C7_OneRenderPerWrite ==
  [][\A c \in Readers : RerenderStep(c) => Len(queue[c]) <= 1]_vars

\* C7 amended: every notification that reaches an active subscription adds
\* one update, hence one evaluation of the selector and one fresh container,
\* and leaves a re-render due, whether or not the value differs and whether
\* or not the selector closure is new; the re-render applies all the updates
\* waiting, so notifications that arrive before it ran share it.
C7_OneRecomputationPerNotification ==
  [][\A c \in Readers :
       /\ Delivered(c) =>
            (/\ Len(queue'[c]) = Len(queue[c]) + 1
             /\ Evaluations(c)' = Evaluations(c) + 1)
       /\ RerenderStep(c) =>
            (/\ selCalls'[c] = Evaluations(c)
             /\ queue'[c] = <<>>
             /\ queue[c] # <<>> => (state'[c] # state[c] /\ state'[c].id > state[c].id)
             /\ queue[c] = <<>> => state'[c] = state[c])]_vars

\* One re-render has served two notifications: mount, two recomputations,
\* two renders.
C7_Witness ==
  \E c \in Readers :
    /\ mounted[c] /\ renders[c] = 2 /\ selCalls[c] = 3
    /\ state[c].id = 3 /\ queue[c] = <<>> /\ writes = 2

\* C8: a component that calls only useWrite has no listener in the registry
\* and never has a re-render due or done because of a write, its own
\* included; every listener of the registry is the attached listener of a
\* read subscription.
C8_WriterOnlyNeverRerenders ==
  /\ \A c \in Comps \ Readers : queue[c] = <<>> /\ renders[c] <= 1
  /\ \A i \in 1..Len(listeners) :
       listeners[i].comp \in Readers /\ listeners[i] = attached[listeners[i].comp]

\* "Control" is the only mounted writer, "C" never was rendered in this
\* instance, two writes are done and "Counter" has re-rendered.
C8_Witness ==
  /\ mounted["Control"] /\ renders["Control"] = 1 /\ ~mounted["C"]
  /\ writes = 2 /\ ~pass.active
  /\ mounted["Counter"] /\ renders["Counter"] = 2

\* C9: without writes the selector of a subscription has been evaluated
\* exactly once, at the first render, however often the component has
\* re-rendered for reasons of its own and whatever closures it passed.
C9_SelectorCalledOnce ==
  \A c \in MountedReaders :
    writes = 0 => (selCalls[c] = 1 /\ state[c].id = 1
                   /\ state[c].value \in {SelApply(k, InitialValue) : k \in Kinds})

\* "C" has re-rendered with a newly constructed closure and re-subscribed.
C9_Witness ==
  /\ mounted["C"] /\ renders["C"] = 2 /\ writes = 0 /\ selCalls["C"] = 1
  /\ selector["C"] = Inline("neg", "C", 2) /\ attached["C"].sel = selector["C"]

\* C10: the wrapper applies the selected method to the Store's own domain
\* value with the arguments it was given (setX(a) leaves x = a in the shared
\* value, getX leaves it alone) and returns what the method returned (getX
\* the x of the call, setX nothing); the pass changes neither.
C10_WrapperCallsMethodOnValue ==
  [][/\ InvokeStep =>
          /\ pass'.method = "setX" =>
               (value' = [x |-> pass'.arg] /\ pass'.result = Undefined)
          /\ pass'.method = "getX" =>
               (value' = value /\ pass'.result = value.x)
          /\ pass'.method \in Methods
     /\ (pass.active /\ pass'.active) =>
          (pass'.result = pass.result /\ pass'.method = pass.method /\ pass'.arg = pass.arg)]_vars

\* setX(2) on x = 1 is about to return with x = 2.
C10_Witness ==
  /\ pass.active /\ pass.method = "setX" /\ pass.arg = 2 /\ value.x = 2
  /\ pass.idx = Len(pass.arr) + 1 /\ writes = 1 /\ pass.result = Undefined

\* C11: the first evaluation of useRead in a component leaves in the cell, and
\* returns, the supplied selector applied to the domain value as it is at that
\* moment (the initial value when no write has happened), from one evaluation
\* of the selector, while no listener of the subscription is attached; and as
\* long as none has been attached the cell keeps that container.
C11_FirstReadIsCurrentValue ==
  [][\A c \in Readers :
       /\ (~mounted[c] /\ mounted'[c]) =>
            (/\ state'[c].value = SelApply(selector'[c].kind, value)
             /\ writes = 0 => state'[c].value = SelApply(selector'[c].kind, InitialValue)
             /\ state'[c].id = 1 /\ selCalls'[c] = 1
             /\ attached[c] = NoListener /\ attached'[c] = NoListener)
       /\ (mounted[c] /\ mounted'[c] /\ renders[c] = 1 /\ pendCreate[c] /\ pendCreate'[c]) =>
            state'[c] = state[c]]_vars

\* "Counter" is first rendered after setX(2) and a second write went by
\* before its effect ran: it shows 2, the value at its first render, and has
\* no listener.
C11_Witness ==
  /\ mounted["Counter"] /\ renders["Counter"] = 1 /\ pendCreate["Counter"]
  /\ attached["Counter"] = NoListener /\ state["Counter"].value = 2
  /\ writes = 2 /\ value.x = 1 /\ ~pass.active

\* C12: the effect body of a subscription runs only when the subscription has
\* no listener in the registry (the previous one has been removed by the
\* cleanup), and it appends exactly one; so the registry never holds two
\* listeners of one subscription, and a re-subscription leaves the registry
\* no longer than it was before the cleanup.
C12_DetachBeforeAttach ==
  [][/\ \A c \in Readers :
          (attached'[c] # attached[c] /\ attached'[c] # NoListener) =>
            (/\ attached[c] = NoListener
             /\ ~pendDestroy[c]
             /\ \A i \in 1..Len(listeners) : listeners[i].comp # c
             /\ listeners' = Append(listeners, attached'[c]))
     /\ \A i, j \in 1..Len(listeners') :
          listeners'[i].comp = listeners'[j].comp => i = j
     /\ Len(listeners') <= Cardinality({c \in Readers : mounted'[c] \/ pendDestroy'[c]})]_vars

\* "C" has re-subscribed after a render with a new selector closure while
\* "Counter" is subscribed: two listeners, the one of "C" from its second render.
C12_Witness ==
  /\ mounted["C"] /\ mounted["Counter"] /\ NoPendingEffects
  /\ attached["C"].gen = 2 /\ attached["C"].sel = Inline("neg", "C", 2)
  /\ listeners = <<attached["Counter"], attached["C"]>>

\* C13: when a notification pass calls a listener for a subscription that has
\* a listener attached, the update it queues recomputes with the selector of
\* the attached listener, the one of the most recent activated render, and
\* not with the selector of a render activated earlier.
C13_NotifiedWithAttachedSelector ==
  [][\A c \in Readers :
       (Delivered(c) /\ attached[c] # NoListener)
         => pass.arr[pass.idx].sel = attached[c].sel]_vars

\* The update a re-render of c applies last.
LastUpdate(c) == queue[c][Len(queue[c])]

\* The cell of c is replaced only by the first render of c, by its unmount,
\* or by a re-render of c that has a notification to serve.
CellReplacedOnlyByNotification(c) ==
  state'[c] # state[c] =>
    \/ mounted'[c] # mounted[c]
    \/ RerenderStep(c) /\ queue[c] # <<>>

\* C14 as stated: the cached container of a subscription is replaced only
\* to serve a notification delivered to it, and then holds the output of the
\* notified selector on the domain value as it was at the most recent
\* notification delivered to the subscription.
C14_CellIsValueAtNotification ==
  [][\A c \in Readers :
       /\ CellReplacedOnlyByNotification(c)
       /\ (RerenderStep(c) /\ queue[c] # <<>>) =>
            state'[c].value = SelApply(LastUpdate(c).sel.kind, [x |-> LastUpdate(c).at])]_vars

\* C14 amended: the cached container of a subscription is replaced only to
\* serve a notification delivered to it, and then holds the output of the
\* notified selector on the domain value as it was at the most recent
\* notification delivered to the subscription if the framework evaluated the
\* update when it was queued, and on the domain value as it is at the
\* re-render otherwise.
C14_CellIsValueAtNotificationOrRender ==
  [][\A c \in Readers :
       /\ CellReplacedOnlyByNotification(c)
       /\ (RerenderStep(c) /\ queue[c] # <<>>) =>
            state'[c].value =
              IF LastUpdate(c).eager
              THEN SelApply(LastUpdate(c).sel.kind, [x |-> LastUpdate(c).at])
              ELSE SelApply(LastUpdate(c).sel.kind, value)]_vars

\* During the pass of a second write, which set x back to 1, and before that
\* pass has called the only listener of "C" it walks, "C" has re-rendered to
\* serve its one notification, the one of the first write, delivered when x
\* was 2 (as "Counter" still shows): the cell of "C" holds the value derived
\* from x = 1.
C14_Witness ==
  /\ pass.active /\ writes = 2 /\ value.x = 1
  /\ pass.idx <= Len(pass.arr) /\ pass.arr[pass.idx].comp = "C"
  /\ Cardinality({i \in 1..Len(pass.arr) : pass.arr[i].comp = "C"}) = 1
  /\ mounted["Counter"] /\ state["Counter"].value = 2
  /\ mounted["C"] /\ renders["C"] = 2 /\ queue["C"] = <<>>
  /\ state["C"].id = 2 /\ state["C"].value = 1 /\ selector["C"] = Stable("x")

\* The sequence s without its i-th element.
Without(s, i) == SubSeq(s, 1, i - 1) \o SubSeq(s, i + 1, Len(s))

C16_ThrowSkipsNotification ==
  [][/\ (InvokeStep /\ pass'.method \in Throwing) =>
          (/\ pass'.threw
           /\ value' = MethodEffect(pass'.method, value, pass'.arg)
           /\ listeners' = listeners /\ queue' = queue /\ selCalls' = selCalls)
     /\ (pass.active /\ pass.threw) =>
          (/\ ThrowStep
           /\ value' = value /\ listeners' = listeners /\ queue' = queue
           /\ selCalls' = selCalls /\ state' = state)]_vars

\* fail() has set x to 2 and thrown while both subscriptions are attached and
\* show 1; no update is queued for them.
C16_Witness ==
  /\ pass.active /\ pass.threw /\ pass.method = "fail" /\ writes = 1
  /\ value.x = 2 /\ Len(listeners) = 2
  /\ \A c \in Readers :
       mounted[c] /\ queue[c] = <<>> /\ state[c].value = 1 /\ selector[c] = Stable("x")

\* C17: the array a pass walks keeps every listener of the registry of the
\* invocation at its place, whatever is detached while the pass runs, and
\* when the wrapper returns each of them has been called exactly once.
C17_DetachedListenerStillCalled ==
  [][/\ (pass.active /\ ~pass.threw /\ pass'.active) =>
          (/\ pass'.start = pass.start
           /\ Len(pass'.arr) >= Len(pass.start)
           /\ \A i \in 1..Len(pass.start) : pass'.arr[i] = pass.start[i]
           /\ pass'.idx >= pass.idx)
     /\ ReturnStep =>
          \A i \in 1..Len(pass.start) :
            i < pass.idx /\ Count(pass.start[i], Called) = 1]_vars

\* "C" was unmounted before the invocation; its cleanup ran inside the call
\* of the first listener and removed the second listener of the pass from
\* the registry; the pass has called it all the same.
C17_Witness ==
  /\ pass.active /\ ~pass.threw /\ Len(pass.start) = 2
  /\ pass.start[1].comp = "Counter" /\ pass.start[2].comp = "C"
  /\ ~mounted["C"] /\ ~pendDestroy["C"]
  /\ listeners = <<pass.start[1]>>
  /\ pass.idx = 3 /\ Count(pass.start[2], Called) = 1

====
